---- MODULE Spec2Model ----
(***************************************************************************)
(* Image intake (core/api/image_handler.py, ImageHandler.handle_post) and  *)
(* outfit analysis (plugins_func/functions/ootd.py, ootd) of               *)
(* xiaozhi-esp32-server, as a state machine over the data/ directory.      *)
(*                                                                         *)
(* Text is a sequence of atoms: a one-character string for text the code   *)
(* takes apart (file names, extensions, digits), a whole literal for text  *)
(* the code only copies.  The source's Chinese literals are written as     *)
(* ASCII glosses; each says which source line it stands for.               *)
(*                                                                         *)
(* A byte string is a record [head, len, rest]: its first SniffLen bytes,  *)
(* its true length, and a tag for the bytes after the head.  startswith()  *)
(* and len() are computed on it as the code computes them on bytes.        *)
(***************************************************************************)
EXTENDS Integers, Sequences, FiniteSets, TLC

VARIABLES
    now,      \* the wall clock, in milliseconds (time.time()*1000)
    dataDir,  \* whether <project>/data exists
    files,    \* the regular files under data/: name -> bytes
    log,      \* history: the files handle_post opened for writing, in order
    nCalls,   \* history: how many handle_post calls were made
    last,     \* the handle_post call in progress or just answered
    call      \* the last ootd call and what it returned

vars == <<now, dataDir, files, log, nCalls, last, call>>

-----------------------------------------------------------------------------
(* Bounds of the model.                                                    *)

MaxClock == 1      \* the clock runs over 0..MaxClock milliseconds
MaxUploads == 1    \* handle_post calls per behaviour, on any request
MaxBurst == 2      \* handle_post calls per behaviour, on well-formed requests
MaxSkip == 1       \* parts in front of the part an upload is about

-----------------------------------------------------------------------------
(* Python values.                                                          *)

None == [has |-> FALSE, val |-> <<>>]
Some(v) == [has |-> TRUE, val |-> v]
\* bool(x) of an Optional[str]
Truthy(o) == o.has /\ o.val # <<>>

Min(a, b) == IF a <= b THEN a ELSE b

\* "abc" as the sequence of its characters
Digit == <<"0", "1", "2", "3", "4", "5", "6", "7", "8", "9">>
RECURSIVE Dec(_)
\* str(n) of an int n >= 0
Dec(n) == IF n < 10 THEN <<Digit[n + 1]>> ELSE Dec(n \div 10) \o <<Digit[(n % 10) + 1]>>

UpperChars == <<"A", "B", "C", "D", "E", "F", "G", "H", "I", "J", "K", "L", "M",
                "N", "O", "P", "Q", "R", "S", "T", "U", "V", "W", "X", "Y", "Z">>
LowerChars == <<"a", "b", "c", "d", "e", "f", "g", "h", "i", "j", "k", "l", "m",
                "n", "o", "p", "q", "r", "s", "t", "u", "v", "w", "x", "y", "z">>
LowerChar(c) ==
    IF \E i \in 1..Len(UpperChars) : UpperChars[i] = c
    THEN LowerChars[CHOOSE i \in 1..Len(UpperChars) : UpperChars[i] = c]
    ELSE c
\* str.lower()
Lower(s) == [i \in 1..Len(s) |-> LowerChar(s[i])]

\* c in s
HasChar(s, c) == \E i \in 1..Len(s) : s[i] = c
\* s.rsplit(".", 1)[-1], for s containing a dot
AfterLastDot(s) ==
    LET k == CHOOSE i \in 1..Len(s) : s[i] = "." /\ \A j \in (i + 1)..Len(s) : s[j] # "."
    IN  SubSeq(s, k + 1, Len(s))

\* sub in text
Contains(text, sub) ==
    \E i \in 0..(Len(text) - Len(sub)) : SubSeq(text, i + 1, i + Len(sub)) = sub
\* text.startswith(pre)
HasPrefix(text, pre) == Len(pre) <= Len(text) /\ SubSeq(text, 1, Len(pre)) = pre
\* text.endswith(suf)
HasSuffix(text, suf) ==
    Len(suf) <= Len(text) /\ SubSeq(text, Len(text) - Len(suf) + 1, Len(text)) = suf

-----------------------------------------------------------------------------
(* Bytes.                                                                  *)

MAX_FILE_SIZE == 5 * 1024 * 1024

\* the eight signatures of _detect_ext, in declaration order
Signatures == <<
    [sig |-> <<255, 216, 255>>,                    ext |-> <<"j", "p", "g">>],
    [sig |-> <<137, 80, 78, 71, 13, 10, 26, 10>>,  ext |-> <<"p", "n", "g">>],
    [sig |-> <<71, 73, 70, 56, 55, 97>>,           ext |-> <<"g", "i", "f">>],
    [sig |-> <<71, 73, 70, 56, 57, 97>>,           ext |-> <<"g", "i", "f">>],
    [sig |-> <<66, 77>>,                           ext |-> <<"b", "m", "p">>],
    [sig |-> <<73, 73, 42, 0>>,                    ext |-> <<"t", "i", "f", "f">>],
    [sig |-> <<77, 77, 0, 42>>,                    ext |-> <<"t", "i", "f", "f">>],
    [sig |-> <<82, 73, 70, 70>>,                   ext |-> <<"w", "e", "b", "p">>] >>

\* the longest signature: how many leading bytes a byte string keeps
SniffLen == Len(Signatures[2].sig)

Bytes(head, len, rest) == [head |-> head, len |-> len, rest |-> rest]
\* data.startswith(sig)
StartsWith(data, sig) ==
    Len(sig) <= Len(data.head) /\ SubSeq(data.head, 1, Len(sig)) = sig
\* the first k bytes of data (what a write that stops after k bytes leaves)
Truncate(data, k) ==
    [head |-> SubSeq(data.head, 1, Min(k, Len(data.head))),
     len  |-> k,
     rest |-> IF k <= SniffLen THEN 0 ELSE data.rest]

\* ImageHandler._detect_ext
DetectExt(data) ==
    LET hits == {i \in 1..Len(Signatures) : StartsWith(data, Signatures[i].sig)}
    IN  IF hits = {} THEN None
        ELSE Some(Signatures[CHOOSE i \in hits : \A j \in hits : i <= j].ext)

\* core.utils.util.is_valid_image_file (ImageValidator): non-empty, at most
\* 5 MiB, and a signature of the table recognised
IsValidImageFile(data) ==
    /\ data.len > 0
    /\ data.len <= MAX_FILE_SIZE
    /\ \E i \in 1..Len(Signatures) : StartsWith(data, Signatures[i].sig)

PNG_SIG == Signatures[2].sig
TEXT8 == <<104, 101, 108, 108, 111, 32, 119, 111>>

EMPTY == Bytes(<<>>, 0, 0)
PNG8 == Bytes(PNG_SIG, Len(PNG_SIG), 0)
PNGMAX == Bytes(PNG_SIG, MAX_FILE_SIZE, 1)
PNGBIG == Bytes(PNG_SIG, MAX_FILE_SIZE + 1, 1)
JPG3 == Bytes(<<255, 216, 255>>, 3, 0)
TXT == Bytes(<<104, 105>>, 2, 0)
TXTBIG == Bytes(TEXT8, MAX_FILE_SIZE + 1, 2)

\* the part bodies uploads are drawn from
Bodies == {EMPTY, PNG8, PNGMAX, PNGBIG, JPG3, TXT, TXTBIG}

-----------------------------------------------------------------------------
(* Exceptions and responses.                                               *)

\* cls: "ValueError" (ValueError and its subclasses), "Exception" (any other
\* subclass of Exception: OSError, AssertionError, ...), "BaseException"
\* (outside Exception: asyncio.CancelledError, ...).  origin: "handler" for a
\* raise statement of the function itself, "library" for a call it makes.
Raised(cls, text, origin) == [cls |-> cls, text |-> text, origin |-> origin]
NoExc == Raised("none", <<>>, "none")

\* image_handler.py:65
MSG_NOT_MULTIPART == <<"bad request format, multipart/form-data expected">>
\* image_handler.py:80
MSG_NO_FILE == <<"no image file found, upload the file in form field 'image'">>
\* image_handler.py:84
MSG_EMPTY == <<"image data is empty">>
\* image_handler.py:88, f"...{MAX_FILE_SIZE/1024/1024}MB": float division, "5.0"
MSG_TOO_BIG ==
    <<"image size over the limit, at most ">>
        \o Dec(MAX_FILE_SIZE \div (1024 * 1024)) \o <<".", "0">> \o <<"MB">>
\* image_handler.py:93
MSG_BAD_FORMAT == <<"unsupported file format, supported: JPEG, PNG, GIF, BMP, TIFF, WEBP">>
\* image_handler.py:128
MSG_INTERNAL == <<"internal server error">>

\* web.Response(text=json.dumps(...), status=...); has = FALSE is Python's None
Response(status, success, message, filename, path) ==
    [has |-> TRUE, status |-> status, success |-> success, message |-> message,
     filename |-> filename, path |-> path]
NoResponse ==
    [has |-> FALSE, status |-> 0, success |-> FALSE, message |-> <<>>,
     filename |-> <<>>, path |-> <<>>]

-----------------------------------------------------------------------------
(* Uploads: what a request carries and what its environment does.          *)

IMAGE == <<"i", "m", "a", "g", "e">>
FILE == <<"f", "i", "l", "e">>
\* chr(0), one atom
NUL == "<NUL>"

\* declared filenames of a part: none, empty, upper-case extension, an
\* extension other than the content's, no dot, nothing after the dot, a
\* slash after the dot, a NUL after the dot
Filenames == {
    None,
    Some(<<>>),
    Some(<<"a", ".", "P", "N", "G">>),
    Some(<<"b", ".", "j", "p", "g">>),
    Some(<<"n", "o", "e", "x", "t">>),
    Some(<<"x", ".">>),
    Some(<<"e", ".", "p", "/", "g">>),
    Some(<<"n", ".", NUL>>) }

Part(name, filename, body) == [name |-> name, filename |-> filename, body |-> body]
\* every declared filename on a small PNG, every body without a declared
\* filename and with one that declares an extension
Parts ==
    {Part(n, f, PNG8) : n \in {IMAGE, FILE}, f \in Filenames}
        \cup {Part(IMAGE, None, b) : b \in Bodies}
        \cup {Part(FILE, Some(<<"a", ".", "P", "N", "G">>), b) : b \in Bodies}
        \cup {Part(IMAGE, Some(<<"b", ".", "j", "p", "g">>), PNGMAX)}

\* parts that stand in front of the part an upload is about
SkipParts == {Part(FILE, None, TXT), Part(FILE, Some(<<>>), PNG8)}
\* a part that follows it
TailPart == Part(IMAGE, Some(<<"z", ".", "j", "p", "g">>), JPG3)

RECURSIVE SeqsUpTo(_, _)
SeqsUpTo(S, n) ==
    IF n = 0 THEN {<<>>}
    ELSE LET shorter == SeqsUpTo(S, n - 1)
         IN  shorter \cup {Append(s, x) : s \in shorter, x \in S}

\* the parts an upload of several parts is about: selected by its name, by
\* its declared filename (a valid and an invalid body), or not selected
KeyParts ==
    {Part(IMAGE, None, PNG8),
     Part(FILE, Some(<<"a", ".", "P", "N", "G">>), PNG8),
     Part(FILE, Some(<<"a", ".", "P", "N", "G">>), TXT),
     Part(FILE, None, PNG8)}

\* the multipart streams uploads are drawn from: every part alone, and the
\* key parts with parts in front of them and after them
Streams ==
    {<<p>> : p \in Parts}
        \cup {pre \o mid \o post :
                pre \in SeqsUpTo(SkipParts, MaxSkip),
                mid \in {<<>>} \cup {<<p>> : p \in KeyParts},
                post \in {<<>>, <<TailPart>>}}

\* What the environment does to one request: at most one call fails, since
\* the first failure ends the try block.  n: which reader.next() call fails,
\* or how many bytes f.write() wrote before it failed.
Fault(at, kind, n) == [at |-> at, kind |-> kind, n |-> n]
NoFault == Fault("none", "none", 0)
ExcClasses == {"ValueError", "Exception", "BaseException"}
Faults ==
    {NoFault}
        \cup {Fault("multipart", k, 0) : k \in ExcClasses \cup {"None"}}
        \cup {Fault("next", k, n) : k \in ExcClasses, n \in 1..(MaxSkip + 1)}
        \cup {Fault("read", k, 0) : k \in ExcClasses}
        \cup {Fault("makedirs", "Exception", 0), Fault("open", "Exception", 0)}
        \cup {Fault("write", "Exception", n) : n \in {0, 1}}

\* the exception a failing library call raises
LibExc(fault) == Raised(fault.kind, <<"exception text of ", fault.at>>, "library")

\* uuid.uuid4().hex[:8]
RandHex1 == <<"0", "0", "0", "0", "0", "0", "0", "0">>
RandHex2 == <<"a", "1", "b", "2", "c", "3", "d", "4">>
RandHex == {RandHex1, RandHex2}
HexChars == {Digit[i] : i \in 1..10} \cup {LowerChars[i] : i \in 1..6}

-----------------------------------------------------------------------------
(* ImageHandler.                                                           *)

IMAGE_ == <<"i", "m", "a", "g", "e", "_">>
BIN == <<"b", "i", "n">>

\* ExtFor without .lower()
ExtFor_NoLower(original_filename, data) ==
    LET ext0 == IF Truthy(original_filename) /\ HasChar(original_filename.val, ".")
                THEN AfterLastDot(original_filename.val)
                ELSE <<>>
        sniffed == DetectExt(data)
    IN  IF ext0 # <<>> THEN ext0
        ELSE IF Truthy(sniffed) THEN sniffed.val ELSE BIN

\* the extension ImageHandler._unique_filename chooses
ExtFor(original_filename, data) ==
    LET ext0 == IF Truthy(original_filename) /\ HasChar(original_filename.val, ".")
                THEN Lower(AfterLastDot(original_filename.val))
                ELSE <<>>
        sniffed == DetectExt(data)
    IN  IF ext0 # <<>> THEN ext0
        ELSE IF Truthy(sniffed) THEN sniffed.val ELSE BIN

\* UniqueFilename without the random digits
UniqueFilename_NoRandom(original_filename, data, ms, hex) ==
    LET ext0 == IF Truthy(original_filename) /\ HasChar(original_filename.val, ".")
                THEN Lower(AfterLastDot(original_filename.val))
                ELSE <<>>
        sniffed == DetectExt(data)
        ext == IF ext0 # <<>> THEN ext0
               ELSE IF Truthy(sniffed) THEN sniffed.val ELSE BIN
    IN  IMAGE_ \o Dec(ms) \o <<".">> \o ext

\* ImageHandler._unique_filename, given the clock and the random digits
UniqueFilename(original_filename, data, ms, hex) ==
    IMAGE_ \o Dec(ms) \o <<"_">> \o hex \o <<".">> \o ExtFor(original_filename, data)

\* fs with name holding data
Put(fs, name, data) ==
    [n \in (DOMAIN fs) \cup {name} |-> IF n = name THEN data ELSE fs[n]]

RECURSIVE Scan_FilenameNotNone(_, _, _)
\* Scan testing "filename is not None" where the code tests its truth
Scan_FilenameNotNone(stream, i, fault) ==
    IF fault.at = "next" /\ fault.n = i
    THEN [target |-> 0, calls |-> i, exc |-> LibExc(fault)]
    ELSE IF i > Len(stream) THEN [target |-> 0, calls |-> i, exc |-> NoExc]
    ELSE IF stream[i].filename.has THEN [target |-> i, calls |-> i, exc |-> NoExc]
    ELSE IF stream[i].name = IMAGE THEN [target |-> i, calls |-> i, exc |-> NoExc]
    ELSE Scan_FilenameNotNone(stream, i + 1, fault)

RECURSIVE Scan(_, _, _)
\* handle_post's loop from the i-th reader.next() on: the index of the part
\* it stops at (0: the stream ended), the calls made, the exception raised
Scan(stream, i, fault) ==
    IF fault.at = "next" /\ fault.n = i
    THEN [target |-> 0, calls |-> i, exc |-> LibExc(fault)]
    ELSE IF i > Len(stream) THEN [target |-> 0, calls |-> i, exc |-> NoExc]
    ELSE IF Truthy(stream[i].filename) THEN [target |-> i, calls |-> i, exc |-> NoExc]
    ELSE IF stream[i].name = IMAGE THEN [target |-> i, calls |-> i, exc |-> NoExc]
    ELSE Scan(stream, i + 1, fault)

\* the try block of handle_post
TryBody(stream, fault, ms, hex, dir, fs) ==
    LET o == [exc |-> NoExc, hit |-> NoFault, seen |-> <<>>, read |-> 0, body |-> EMPTY,
              declared |-> None, pname |-> <<>>, filename |-> <<>>,
              opened |-> FALSE, dataDir |-> dir, files |-> fs]
        sc == Scan(stream, 1, fault)
        got == SubSeq(stream, 1, IF sc.exc = NoExc THEN Min(sc.calls, Len(stream))
                                 ELSE sc.calls - 1)
        part == stream[sc.target]
        data == part.body
        o1 == [o EXCEPT !.seen = got]
        o2 == [o1 EXCEPT !.read = sc.target, !.declared = part.filename,
                         !.pname = part.name]
        o3 == [o2 EXCEPT !.body = data]
        fname == UniqueFilename(part.filename, data, ms, hex)
        o4 == [o3 EXCEPT !.dataDir = TRUE]
        o5 == [o4 EXCEPT !.filename = fname]
    IN  IF fault.at = "multipart"
        THEN [o EXCEPT !.hit = fault,
                       !.exc = IF fault.kind = "None"
                               THEN Raised("ValueError", MSG_NOT_MULTIPART, "handler")
                               ELSE LibExc(fault)]
        ELSE IF sc.exc # NoExc THEN [o1 EXCEPT !.exc = sc.exc, !.hit = fault]
        ELSE IF sc.target = 0
        THEN [o1 EXCEPT !.exc = Raised("ValueError", MSG_NO_FILE, "handler")]
        ELSE IF fault.at = "read" THEN [o2 EXCEPT !.exc = LibExc(fault), !.hit = fault]
        ELSE IF data.len = 0
        THEN [o3 EXCEPT !.exc = Raised("ValueError", MSG_EMPTY, "handler")]
        ELSE IF data.len > MAX_FILE_SIZE
        THEN [o3 EXCEPT !.exc = Raised("ValueError", MSG_TOO_BIG, "handler")]
        ELSE IF ~IsValidImageFile(data)
        THEN [o3 EXCEPT !.exc = Raised("ValueError", MSG_BAD_FORMAT, "handler")]
        ELSE IF fault.at = "makedirs" THEN [o3 EXCEPT !.exc = LibExc(fault), !.hit = fault]
        \* open(): a NUL in the path is a ValueError, raised before the system call
        ELSE IF HasChar(fname, NUL)
        THEN [o5 EXCEPT !.exc = Raised("ValueError", <<"embedded null byte">>, "library")]
        \* open(): a slash in the extension names a directory that does not exist
        ELSE IF HasChar(fname, "/")
        THEN [o5 EXCEPT !.exc = Raised("Exception", <<"No such file or directory">>, "library")]
        ELSE IF fault.at = "open" THEN [o5 EXCEPT !.exc = LibExc(fault), !.hit = fault]
        \* open(.., "wb") has created or emptied the file when f.write() fails
        ELSE IF fault.at = "write"
        THEN [o5 EXCEPT !.exc = LibExc(fault), !.hit = fault, !.opened = TRUE,
                        !.files = Put(fs, fname, Truncate(data, Min(fault.n, data.len - 1)))]
        ELSE [o5 EXCEPT !.opened = TRUE, !.files = Put(fs, fname, data)]

DATA_SLASH == <<"d", "a", "t", "a", "/">>

\* Respond without the "except ValueError" clause
Respond_NoValueErrorClause(o) ==
    IF o.exc = NoExc
    THEN Response(200, TRUE, <<>>, o.filename, DATA_SLASH \o o.filename)
    ELSE IF o.exc.cls \in {"ValueError", "Exception"}
    THEN Response(500, FALSE, MSG_INTERNAL, <<>>, <<>>)
    ELSE NoResponse

\* the except clauses and the finally clause of handle_post
Respond(o) ==
    IF o.exc = NoExc
    THEN Response(200, TRUE, <<>>, o.filename, DATA_SLASH \o o.filename)
    ELSE IF o.exc.cls = "ValueError" THEN Response(400, FALSE, o.exc.text, <<>>, <<>>)
    ELSE IF o.exc.cls = "Exception" THEN Response(500, FALSE, MSG_INTERNAL, <<>>, <<>>)
    \* no clause catches it; "return response" in finally discards it
    ELSE NoResponse

Idle ==
    [state |-> "idle", resp |-> NoResponse, exc |-> NoExc, hit |-> NoFault,
     seen |-> <<>>, rest |-> 0, read |-> 0, body |-> EMPTY, declared |-> None,
     pname |-> <<>>, filename |-> <<>>, opened |-> FALSE, before |-> <<>>,
     dirBefore |-> FALSE, ms |-> 0, hex |-> <<>>]

\* ImageHandler.handle_post on one request: a stream of streams, in an
\* environment of faults, with random digits of hexes
HandlePostOn(streams, faults, hexes, cap) ==
    /\ last.state = "idle"
    /\ nCalls < cap
    /\ \E stream \in streams, fault \in faults, hex \in hexes :
         LET o == TryBody(stream, fault, now, hex, dataDir, files)
             r == Respond(o)
         IN  /\ dataDir' = o.dataDir
             /\ files' = o.files
             /\ log' = IF o.opened
                       THEN Append(log, [name |-> o.filename, body |-> o.body,
                                         declared |-> o.declared,
                                         ok |-> r.status = 200, ms |-> now,
                                         hex |-> hex])
                       ELSE log
             /\ last' = [state |-> "answered", resp |-> r, exc |-> o.exc,
                         hit |-> o.hit,
                         seen |-> o.seen, rest |-> Len(stream) - Len(o.seen),
                         read |-> o.read, body |-> o.body, declared |-> o.declared,
                         pname |-> o.pname, filename |-> o.filename,
                         opened |-> o.opened, before |-> files,
                         dirBefore |-> dataDir, ms |-> now, hex |-> hex]
    /\ nCalls' = nCalls + 1
    /\ UNCHANGED <<now, call>>

\* a request of any shape, in any environment
HandlePost == HandlePostOn(Streams, Faults, {RandHex1}, MaxUploads)

\* the requests of a burst: one part named "image" holding a valid image
BurstStreams ==
    {<<Part(IMAGE, f, b)>> :
        f \in {None, Some(<<"a", ".", "P", "N", "G">>), Some(<<"b", ".", "j", "p", "g">>)},
        b \in {PNG8, JPG3}}

\* a well-formed request, nothing failing
HandlePostBurst == HandlePostOn(BurstStreams, {NoFault}, RandHex, MaxBurst)

\* the response has gone to the client; the next request may come
Reply ==
    /\ last.state = "answered"
    /\ last' = Idle
    /\ UNCHANGED <<now, dataDir, files, log, nCalls, call>>

\* time passes
Tick ==
    /\ now < MaxClock
    /\ now' = now + 1
    /\ UNCHANGED <<dataDir, files, log, nCalls, last, call>>

-----------------------------------------------------------------------------
(* ootd: its inputs and its environment.                                   *)

\* ootd.py:44
MSG_NO_CONN_CONFIG == <<"connection config not found, cannot initialise the vision model">>
\* ootd.py:48
MSG_NO_MODULE == <<"no default vision analysis module has been set">>
\* ootd.py:52
MSG_CFG_MISSING == <<"vision analysis module config missing">>
\* ootd.py:62
MsgNotFound(file_name) ==
    <<"specified file not found: ">> \o file_name \o <<" (expected under data/)">>
\* ootd.py:66
MSG_READ_EMPTY == <<"reading the image failed or its content is empty">>
\* ootd.py:69
MSG_OVER_LIMIT == <<"image size over the limit (at most 5MB)">>
\* ootd.py:133
FAIL_PREFIX == <<"generation failed: ">>
\* ootd.py:84-87
QUESTION == <<"describe the person in the picture in detail ... not the background">>
\* ootd.py:93
DEFAULT_SCENE == <<"daily commute/outing (no scene given)">>
\* ootd.py:95-122
TEMPLATE == <<"you are a scene-based outfit consultant ... follow the rules above">>
\* ootd.py:123-124
APPEARANCE_TAG == <<"[appearance]">>
SCENE_TAG == <<"[scene]">>
NL2 == <<"\n\n">>

A_PNG == <<"a", ".", "p", "n", "g">>
GHOST == <<"g", "h", "o", "s", "t">>
\* the file names ootd is called with: "" (data/ itself), a file that other
\* processes create, change and delete, a file that never exists
OotdNames == {<<>>, A_PNG, GHOST}
\* what other processes write under data/
EnvNames == {A_PNG}
EnvBodies == {EMPTY, PNG8, TXT, PNGMAX, PNGBIG}

\* the scene hint: absent, empty, given
Statuses == {None, Some(<<>>), Some(<<"job", " ", "interview">>)}
\* what the vision client answers
Descs == {<<"tall", " ", "man">>, <<>>}

GLM == <<"ChatGLMVLLM">>
OPENAI == <<"openai">>
\* a module's settings: a dict that is empty or not, with a "type" or not
Settings(empty, type) == [empty |-> empty, type |-> type]
\* conn: whether conn.config is there (and not empty), selected_module.VLLM,
\* and config["VLLM"] as the settings of the modules it names
Conn(hasConfig, selected, vllm) ==
    [hasConfig |-> hasConfig, selected |-> selected, VLLM |-> vllm]
NoSettings == [m \in {} |-> Settings(TRUE, None)]
Conns == {
    Conn(FALSE, None, NoSettings),
    Conn(TRUE, None, [m \in {GLM} |-> Settings(FALSE, None)]),
    Conn(TRUE, Some(<<>>), [m \in {GLM} |-> Settings(FALSE, None)]),
    Conn(TRUE, Some(GLM), NoSettings),
    Conn(TRUE, Some(GLM), [m \in {GLM} |-> Settings(TRUE, None)]),
    Conn(TRUE, Some(GLM), [m \in {GLM} |-> Settings(FALSE, None)]),
    Conn(TRUE, Some(GLM), [m \in {GLM} |-> Settings(FALSE, Some(OPENAI))]) }

\* what other processes do to the file between os.path.exists() and open()
Race(kind, data) == [kind |-> kind, data |-> data]
Races ==
    {Race("none", EMPTY), Race("deleted", EMPTY)}
        \cup {Race("replaced", b) : b \in EnvBodies}

\* what the vision layer does: create_instance() returns a client or raises,
\* client.response() returns a description or raises
Vision(create, respond, desc) == [create |-> create, respond |-> respond, desc |-> desc]
Visions ==
    {Vision("raises", "returns", <<>>)}
        \cup {Vision("returns", "raises", <<>>)}
        \cup {Vision("returns", "returns", d) : d \in Descs}

\* base64.b64encode(data).decode("utf-8")
Base64(data) == [encoding |-> "base64", of |-> data]
NoImage == [encoding |-> "none", of |-> EMPTY]

\* fs without name
Remove(fs, name) == [n \in (DOMAIN fs) \ {name} |-> fs[n]]

-----------------------------------------------------------------------------
(* ootd.                                                                   *)

\* ReadImageToBase64 without the os.path.exists() check
ReadImageToBase64_NoExistsCheck(file_name, dir, fs, race) ==
    LET isDir == file_name = <<>> /\ dir
        isFile == file_name \in DOMAIN fs
        fs2 == IF ~isFile \/ race.kind = "none" THEN fs
               ELSE IF race.kind = "deleted" THEN Remove(fs, file_name)
               ELSE Put(fs, file_name, race.data)
        data == fs2[file_name]
        o == [exc |-> NoExc, image |-> NoImage, data |-> EMPTY, read |-> FALSE,
              existed |-> isDir \/ isFile, files |-> fs2]
    IN  IF isDir
        THEN [o EXCEPT !.exc = Raised("Exception", <<"Is a directory">>, "library")]
        ELSE IF file_name \notin DOMAIN fs2
        THEN [o EXCEPT !.exc = Raised("Exception", <<"No such file or directory">>, "library")]
        ELSE IF data.len = 0
        THEN [o EXCEPT !.read = TRUE, !.data = data,
                       !.exc = Raised("ValueError", MSG_READ_EMPTY, "handler")]
        ELSE IF data.len > 5 * 1024 * 1024
        THEN [o EXCEPT !.read = TRUE, !.data = data,
                       !.exc = Raised("ValueError", MSG_OVER_LIMIT, "handler")]
        ELSE [o EXCEPT !.read = TRUE, !.data = data, !.image = Base64(data)]

\* _read_image_to_base64: the exception or the encoded image, the bytes read,
\* whether the path existed, and the files as the race leaves them
ReadImageToBase64(file_name, dir, fs, race) ==
    LET isDir == file_name = <<>> /\ dir
        isFile == file_name \in DOMAIN fs
        fs2 == IF ~isFile \/ race.kind = "none" THEN fs
               ELSE IF race.kind = "deleted" THEN Remove(fs, file_name)
               ELSE Put(fs, file_name, race.data)
        data == fs2[file_name]
        o == [exc |-> NoExc, image |-> NoImage, data |-> EMPTY, read |-> FALSE,
              existed |-> isDir \/ isFile, files |-> fs2]
    IN  IF ~(isDir \/ isFile)
        THEN [o EXCEPT !.exc = Raised("Exception", MsgNotFound(file_name), "handler")]
        \* open() of a directory: IsADirectoryError
        ELSE IF isDir
        THEN [o EXCEPT !.exc = Raised("Exception", <<"Is a directory">>, "library")]
        \* open() of a file deleted since the check: FileNotFoundError
        ELSE IF file_name \notin DOMAIN fs2
        THEN [o EXCEPT !.exc = Raised("Exception", <<"No such file or directory">>, "library")]
        ELSE IF data.len = 0
        THEN [o EXCEPT !.read = TRUE, !.data = data,
                       !.exc = Raised("ValueError", MSG_READ_EMPTY, "handler")]
        ELSE IF data.len > 5 * 1024 * 1024
        THEN [o EXCEPT !.read = TRUE, !.data = data,
                       !.exc = Raised("ValueError", MSG_OVER_LIMIT, "handler")]
        ELSE [o EXCEPT !.read = TRUE, !.data = data, !.image = Base64(data)]

\* _select_vllm: the exception, or the type and settings create_instance()
\* is called with
SelectVllm(conn, vision) ==
    LET o == [exc |-> NoExc, constructed |-> FALSE, type |-> <<>>]
        name == conn.selected.val
        cfg == conn.VLLM[name]
        type == IF cfg.type.has THEN cfg.type.val ELSE name
    IN  IF ~conn.hasConfig
        THEN [o EXCEPT !.exc = Raised("Exception", MSG_NO_CONN_CONFIG, "handler")]
        ELSE IF ~Truthy(conn.selected)
        THEN [o EXCEPT !.exc = Raised("Exception", MSG_NO_MODULE, "handler")]
        ELSE IF name \notin DOMAIN conn.VLLM \/ cfg.empty
        THEN [o EXCEPT !.exc = Raised("Exception", MSG_CFG_MISSING, "handler")]
        ELSE IF vision.create = "raises"
        THEN [o EXCEPT !.type = type,
                       !.exc = Raised("Exception", <<"exception text of create_instance">>, "library")]
        ELSE [o EXCEPT !.type = type, !.constructed = TRUE]

\* ActionResponse(action, result, response)
ActionResponse(action, result, response) ==
    [action |-> action, result |-> result, response |-> response]

\* Scene testing "status is not None" where the code tests its truth
Scene_IfNotNone(status) == IF status.has THEN status.val ELSE DEFAULT_SCENE

\* ootd.py:93, status or "<default>"
Scene(status) == IF Truthy(status) THEN status.val ELSE DEFAULT_SCENE

\* ootd.py:94-125
Guidance(desc, scene) ==
    TEMPLATE \o APPEARANCE_TAG \o desc \o NL2 \o SCENE_TAG \o scene \o NL2

\* the try block of ootd
OotdBody(conn, file_name, status, dir, fs, race, vision) ==
    LET rd == ReadImageToBase64(file_name, dir, fs, race)
        sel == SelectVllm(conn, vision)
        o == [exc |-> rd.exc, existed |-> rd.existed, read |-> rd.read,
              data |-> rd.data, files |-> rd.files, constructed |-> FALSE,
              type |-> <<>>, invoked |-> FALSE, answered |-> FALSE,
              question |-> <<>>, image |-> NoImage,
              ret |-> ActionResponse("none", None, None)]
        o2 == [o EXCEPT !.exc = sel.exc, !.constructed = sel.constructed,
                        !.type = sel.type]
        o3 == [o2 EXCEPT !.invoked = TRUE, !.question = QUESTION, !.image = rd.image]
        guidance == Guidance(vision.desc, Scene(status))
    IN  IF rd.exc # NoExc THEN o
        ELSE IF sel.exc # NoExc THEN o2
        ELSE IF vision.respond = "raises"
        THEN [o3 EXCEPT !.exc = Raised("Exception", <<"exception text of response">>, "library")]
        ELSE [o3 EXCEPT !.answered = TRUE,
                        !.ret = ActionResponse("REQLLM", Some(guidance), None)]

\* OotdExcept catching ValueError only
OotdExcept_ValueErrorOnly(o) ==
    IF o.exc = NoExc THEN o
    ELSE IF o.exc.cls = "ValueError"
    THEN [o EXCEPT !.ret = ActionResponse("RESPONSE", None, Some(FAIL_PREFIX \o o.exc.text))]
    ELSE o

\* the except clause of ootd: what the call returns, or the exception it lets
\* through (ret.action = "none")
OotdExcept(o) ==
    IF o.exc = NoExc THEN o
    ELSE IF o.exc.cls \in {"ValueError", "Exception"}
    THEN [o EXCEPT !.ret = ActionResponse("RESPONSE", None, Some(FAIL_PREFIX \o o.exc.text))]
    ELSE o

NoCall ==
    [state |-> "none", file_name |-> <<>>, status |-> None,
     conn |-> Conn(FALSE, None, NoSettings), race |-> "none", exc |-> NoExc,
     existed |-> FALSE, read |-> FALSE, data |-> EMPTY, constructed |-> FALSE,
     type |-> <<>>, invoked |-> FALSE, answered |-> FALSE, question |-> <<>>,
     image |-> NoImage, desc |-> <<>>, ret |-> ActionResponse("none", None, None)]

\* ootd(conn, file_name, status)
Ootd ==
    /\ call.state = "none"
    /\ \E file_name \in OotdNames, status \in Statuses, conn \in Conns,
          race \in Races, vision \in Visions :
         LET o == OotdExcept(OotdBody(conn, file_name, status, dataDir, files, race, vision))
         IN  /\ files' = o.files
             /\ call' = [state |-> "returned", file_name |-> file_name,
                         status |-> status, conn |-> conn,
                         race |-> IF file_name \in DOMAIN files THEN race.kind ELSE "none",
                         exc |-> o.exc, existed |-> o.existed, read |-> o.read,
                         data |-> o.data, constructed |-> o.constructed,
                         type |-> o.type, invoked |-> o.invoked,
                         answered |-> o.answered,
                         question |-> o.question, image |-> o.image,
                         desc |-> IF o.answered THEN vision.desc ELSE <<>>,
                         ret |-> o.ret]
    /\ UNCHANGED <<now, dataDir, log, nCalls, last>>

\* the chat layer has taken the directive; the next call may come
OotdDone ==
    /\ call.state = "returned"
    /\ call' = NoCall
    /\ UNCHANGED <<now, dataDir, files, log, nCalls, last>>

\* another process writes a file under data/
ExternalWrite ==
    /\ \E name \in EnvNames, data \in EnvBodies :
         /\ IF name \in DOMAIN files THEN files[name] # data ELSE TRUE
         /\ files' = Put(files, name, data)
    /\ dataDir' = TRUE
    /\ UNCHANGED <<now, log, nCalls, last, call>>

\* another process deletes a file under data/
ExternalDelete ==
    /\ \E name \in DOMAIN files : files' = Remove(files, name)
    /\ UNCHANGED <<now, dataDir, log, nCalls, last, call>>

-----------------------------------------------------------------------------
(* Specifications.                                                         *)

Init ==
    /\ now = 0
    /\ dataDir \in BOOLEAN
    /\ files = <<>>
    /\ log = <<>>
    /\ nCalls = 0
    /\ last = Idle
    /\ call = NoCall

\* uploads of any shape in any environment
NextUpload == HandlePost \/ Reply \/ Tick
SpecUpload == Init /\ [][NextUpload]_vars

\* bursts of well-formed uploads
NextBurst == HandlePostBurst \/ Reply \/ Tick
SpecBurst == Init /\ [][NextBurst]_vars

\* analysis of files that other processes create, change and delete
NextOotd == Ootd \/ OotdDone \/ ExternalWrite \/ ExternalDelete
SpecOotd == Init /\ [][NextOotd]_vars

Next == NextUpload \/ NextBurst \/ NextOotd
Spec == Init /\ [][Next]_vars

-----------------------------------------------------------------------------
(* Properties of handle_post.                                              *)

Answered == last.state = "answered"
\* a response with this status and this message, and no filename
IsError(resp, status, message) ==
    resp = Response(status, FALSE, message, <<>>, <<>>)
\* some signature of the table starts the bytes
Recognised(data) == \E i \in 1..Len(Signatures) : StartsWith(data, Signatures[i].sig)
\* name is image_<ms>_<8 hex digits>.<ext> for some ext
IsGeneratedName(name, ms) ==
    LET pre == IMAGE_ \o Dec(ms) \o <<"_">>
    IN  /\ HasPrefix(name, pre)
        /\ Len(name) > Len(pre) + 9
        /\ \A i \in 1..8 : name[Len(pre) + i] \in HexChars
        /\ name[Len(pre) + 9] = "."
\* the upload's file is on disk under the name the response gives
Stored ==
    /\ last.resp.filename \in DOMAIN files
    /\ files[last.resp.filename] = last.body
    /\ last.resp.path = DATA_SLASH \o last.resp.filename

\* C3: each client-class failure of an upload (reader None, no file part,
\* empty body, body over 5 MiB, body failing ImageValidator) is answered
\* with status 400, success false and the message of that cause, never 500;
\* the causes are tested in that order, so a body over 5 MiB gets the
\* message naming "5.0MB" whatever its bytes are.
T_C3 ==
    Answered =>
        /\ (last.hit = Fault("multipart", "None", 0)
                => IsError(last.resp, 400, MSG_NOT_MULTIPART))
        /\ (last.hit = NoFault /\ last.read = 0
                => IsError(last.resp, 400, MSG_NO_FILE))
        /\ (last.hit = NoFault /\ last.read > 0 /\ last.body.len = 0
                => IsError(last.resp, 400, MSG_EMPTY))
        /\ (last.hit = NoFault /\ last.read > 0 /\ last.body.len > MAX_FILE_SIZE
                => /\ IsError(last.resp, 400, MSG_TOO_BIG)
                   /\ Contains(last.resp.message, <<"5", ".", "0", "MB">>))
        /\ ((/\ last.hit = NoFault
             /\ last.read > 0
             /\ last.body.len > 0
             /\ last.body.len <= MAX_FILE_SIZE
             /\ ~Recognised(last.body))
                => IsError(last.resp, 400, MSG_BAD_FORMAT))
        /\ Cardinality({MSG_NOT_MULTIPART, MSG_NO_FILE, MSG_EMPTY, MSG_TOO_BIG,
                        MSG_BAD_FORMAT, MSG_INTERNAL}) = 6

\* an upload over 5 MiB whose bytes are no image is answered 400 with the
\* message about the size
W_C3 ==
    /\ Answered
    /\ last.body = TXTBIG
    /\ IsError(last.resp, 400, MSG_TOO_BIG)

\* C4: every failure of a library call (parser, makedirs, open, write,
\* whatever it raises) is answered with status 500 and only the generic
\* message, the exception's text is in no response, and handle_post always
\* returns a response object.
CE_C4 ==
    Answered =>
        /\ last.resp.has
        /\ (last.exc.origin = "library"
                => /\ IsError(last.resp, 500, MSG_INTERNAL)
                   /\ ~Contains(last.resp.message, last.exc.text))

\* C5: every file handle_post created holds exactly the body of the selected
\* part of one upload, non-empty, at most 5 MiB and a valid image; an upload
\* answered 400 created no file and left the data directory as it was; an
\* upload answered 200 has its file written.
CE_C5 ==
    /\ \A n \in DOMAIN files :
         /\ \E i \in 1..Len(log) : log[i].name = n /\ files[n] = log[i].body
         /\ files[n].len > 0
         /\ files[n].len <= MAX_FILE_SIZE
         /\ IsValidImageFile(files[n])
    /\ (Answered /\ last.resp.status = 400
            => ~last.opened /\ files = last.before /\ dataDir = last.dirBefore)
    /\ (Answered /\ last.resp.status = 200 => Stored)

\* a valid PNG in the part named "image", and no library call failing
PngInImage ==
    /\ Answered
    /\ last.hit = NoFault
    /\ last.read > 0
    /\ last.pname = IMAGE
    /\ StartsWith(last.body, PNG_SIG)
    /\ last.body.len <= MAX_FILE_SIZE
\* the declared filename's extension: lower-cased, after the last dot
DeclaredExt ==
    IF last.declared.has /\ HasChar(last.declared.val, ".")
    THEN Lower(AfterLastDot(last.declared.val))
    ELSE <<>>
PNG == <<"p", "n", "g">>

\* C8 as stated: whatever the declared filename is, a valid PNG in the part
\* named "image" is answered 200 with a filename image_<ms>_<8 hex>.png, and
\* the file is on disk.
CE_C8 ==
    PngInImage =>
        /\ last.resp.has /\ last.resp.status = 200 /\ last.resp.success
        /\ IsGeneratedName(last.resp.filename, last.ms)
        /\ HasSuffix(last.resp.filename, <<".">> \o PNG)
        /\ Stored

\* C8 as amended: the answer is 200 with image_<ms>_<8 hex>.png, file on
\* disk, when the declared filename gives no extension (no filename, empty,
\* no dot, nothing after the last dot) or gives png in any letter case; any
\* other declared extension is the generated filename's instead, lower-cased
\* (b.jpg gives .jpg); an extension with a NUL is answered 400 and one with
\* a slash 500, with no file.
T_C8 ==
    PngInImage =>
        IF DeclaredExt \in {<<>>, PNG}
        THEN /\ last.resp.has /\ last.resp.status = 200 /\ last.resp.success
             /\ IsGeneratedName(last.resp.filename, last.ms)
             /\ HasSuffix(last.resp.filename, <<".">> \o PNG)
             /\ Len(last.resp.filename) = Len(IMAGE_) + Len(Dec(last.ms)) + 10 + Len(PNG)
             /\ Stored
        ELSE IF HasChar(DeclaredExt, NUL)
        THEN last.resp.has /\ last.resp.status = 400 /\ files = last.before
        ELSE IF HasChar(DeclaredExt, "/")
        THEN IsError(last.resp, 500, MSG_INTERNAL) /\ files = last.before
        ELSE /\ last.resp.has /\ last.resp.status = 200 /\ last.resp.success
             /\ IsGeneratedName(last.resp.filename, last.ms)
             /\ HasSuffix(last.resp.filename, <<".">> \o DeclaredExt)
             /\ Len(last.resp.filename)
                    = Len(IMAGE_) + Len(Dec(last.ms)) + 10 + Len(DeclaredExt)
             /\ Stored

\* a PNG declared as a.PNG is stored under a name ending in .png
W_C8 ==
    /\ PngInImage
    /\ last.declared = Some(<<"a", ".", "P", "N", "G">>)
    /\ last.resp.status = 200
    /\ HasSuffix(last.resp.filename, <<".">> \o PNG)
    /\ Stored

\* the scan was not cut short by a failing parser call
Scanned == Answered /\ last.hit.at \notin {"multipart", "next"}
\* whether the scan is to stop at a part: it declares a filename (strict: a
\* non-empty one) or is named "image"
Selects(part, strict) ==
    (IF strict THEN Truthy(part.filename) ELSE part.filename.has) \/ part.name = IMAGE
\* the part the scan stopped at is the earliest that Selects, its body alone
\* was read and stored, and no part after it was taken from the stream; with
\* no such part the whole stream was taken and the answer is 400 with the
\* message about the form field 'image'
EarliestOf(strict) ==
    IF last.read > 0
    THEN /\ last.read = Len(last.seen)
         /\ Selects(last.seen[last.read], strict)
         /\ \A i \in 1..(last.read - 1) : ~Selects(last.seen[i], strict)
         /\ (last.hit.at # "read" => last.body = last.seen[last.read].body)
         /\ (last.resp.status = 200 => Stored)
    ELSE /\ \A i \in 1..Len(last.seen) : ~Selects(last.seen[i], strict)
         /\ last.rest = 0
         /\ IsError(last.resp, 400, MSG_NO_FILE)
         /\ Contains(last.resp.message,
                     <<"no image file found, upload the file in form field 'image'">>)
         /\ files = last.before

\* C10 as stated: the earliest part that declares a filename or is named
\* "image" is selected, only its body is read, no later part is read, and a
\* stream without such a part is answered 400 with the message about the
\* form field 'image'.
CE_C10 == Scanned => EarliestOf(FALSE)

\* C10 as amended: the same, for the earliest part that declares a non-empty
\* filename or is named "image"; a part whose declared filename is empty is
\* passed over unless it is named "image".
T_C10 == Scanned => EarliestOf(TRUE)

\* a part with an empty declared filename was passed over and the part after
\* it was selected and stored
W_C10 ==
    /\ Scanned
    /\ last.read = 2
    /\ last.seen[1].filename = Some(<<>>)
    /\ last.rest = 1
    /\ last.resp.status = 200
    /\ Stored

-----------------------------------------------------------------------------
(* Properties of a burst of uploads.                                       *)

Pairs == {p \in (1..Len(log)) \X (1..Len(log)) : p[1] < p[2] /\ log[p[1]].ok /\ log[p[2]].ok}
LogExt(e) == ExtFor(e.declared, e.body)

-----------------------------------------------------------------------------
(* Properties of ootd.                                                     *)

Returned == call.state = "returned"
\* the error directive with this cause
IsFailure(ret, cause) == ret = ActionResponse("RESPONSE", None, Some(FAIL_PREFIX \o cause))
\* the vision client was neither constructed nor invoked
NoVision == ~call.constructed /\ ~call.invoked

\* C1: a stored file whose bytes are non-empty, at most 5 MiB and carry no
\* recognised signature makes ootd return the error directive, and the
\* vision client's response() is not invoked on it.
CE_C1 ==
    (/\ Returned
     /\ call.read
     /\ call.data.len > 0
     /\ call.data.len <= MAX_FILE_SIZE
     /\ ~Recognised(call.data))
        => call.ret.action = "RESPONSE" /\ ~call.invoked

\* C2: ootd lets no exception through and returns one directive: REQLLM with
\* the guidance text exactly when every step succeeded, else RESPONSE with
\* the text "generation failed: " followed by the cause; also when the file
\* is deleted or replaced between the existence check and the read and when
\* the vision layer raises.
T_C2 ==
    Returned =>
        LET steps == /\ call.existed
                     /\ call.read
                     /\ call.data.len > 0
                     /\ call.data.len <= MAX_FILE_SIZE
                     /\ call.constructed
                     /\ call.invoked
                     /\ call.answered
        IN  /\ call.ret.action \in {"REQLLM", "RESPONSE"}
            /\ (call.ret.action = "REQLLM" <=> steps)
            /\ (call.ret.action = "REQLLM"
                    => /\ call.ret.result.has
                       /\ HasPrefix(call.ret.result.val, TEMPLATE)
                       /\ call.ret.response = None)
            /\ (call.ret.action = "RESPONSE"
                    => /\ call.ret.result = None
                       /\ call.ret.response.has
                       /\ HasPrefix(call.ret.response.val, FAIL_PREFIX)
                       /\ Len(call.ret.response.val) > Len(FAIL_PREFIX)
                       /\ call.ret.response.val = FAIL_PREFIX \o call.exc.text)

\* the file was deleted between the existence check and the read, and ootd
\* returned the error directive
W_C2 ==
    /\ Returned
    /\ call.race = "deleted"
    /\ call.existed
    /\ ~call.read
    /\ call.ret.action = "RESPONSE"

\* the connection has no usable vision configuration
NoVisionConfig(conn) ==
    \/ ~conn.hasConfig
    \/ ~conn.selected.has
    \/ conn.selected.val = <<>>
    \/ conn.selected.val \notin DOMAIN conn.VLLM
    \/ conn.VLLM[conn.selected.val].empty

\* C7: ootd reports the first failing step in the order file lookup, read,
\* size, vision configuration, model call: a missing file gives the error
\* directive naming the file whatever the configuration, an empty file the
\* one about empty content, a file over 5 MiB the one about the size, a
\* readable file with no selected module or no settings the one about the
\* configuration; in each the vision client is neither constructed nor
\* invoked.
T_C7 ==
    Returned =>
        /\ (~call.existed
                => /\ IsFailure(call.ret, MsgNotFound(call.file_name))
                   /\ Contains(call.ret.response.val, call.file_name)
                   /\ NoVision)
        /\ (call.read /\ call.data.len = 0
                => IsFailure(call.ret, MSG_READ_EMPTY) /\ NoVision)
        /\ (call.read /\ call.data.len > MAX_FILE_SIZE
                => IsFailure(call.ret, MSG_OVER_LIMIT) /\ NoVision)
        /\ ((/\ call.read
             /\ call.data.len > 0
             /\ call.data.len <= MAX_FILE_SIZE
             /\ NoVisionConfig(call.conn))
                => /\ \/ IsFailure(call.ret, MSG_NO_CONN_CONFIG) /\ ~call.conn.hasConfig
                      \/ IsFailure(call.ret, MSG_NO_MODULE)
                            /\ call.conn.hasConfig /\ ~Truthy(call.conn.selected)
                      \/ IsFailure(call.ret, MSG_CFG_MISSING)
                            /\ call.conn.hasConfig /\ Truthy(call.conn.selected)
                   /\ NoVision)

\* a missing file and no selected module: the error names the file
W_C7 ==
    /\ Returned
    /\ call.file_name = GHOST
    /\ ~call.existed
    /\ call.conn.hasConfig
    /\ call.conn.selected = None
    /\ IsFailure(call.ret, MsgNotFound(GHOST))

\* the vision client returned a description
Described == Returned /\ call.answered
GuidanceText == call.ret.result.val

\* C9 as stated: the guidance text holds the description and the scene hint
\* as given, and the default phrase exactly when the hint is absent.
CE_C9 ==
    Described =>
        /\ call.ret.action = "REQLLM"
        /\ Contains(GuidanceText, call.desc)
        /\ (call.status.has => Contains(GuidanceText, call.status.val))
        /\ (Contains(GuidanceText, DEFAULT_SCENE) <=> ~call.status.has)

\* C9 as amended: the default phrase is substituted exactly when the hint is
\* absent or the empty string; any non-empty hint is in the text unchanged.
T_C9 ==
    Described =>
        /\ call.ret.action = "REQLLM"
        /\ call.ret.result.has
        /\ Contains(GuidanceText, call.desc)
        /\ (call.status.has => Contains(GuidanceText, call.status.val))
        /\ (Contains(GuidanceText, DEFAULT_SCENE)
                <=> ~call.status.has \/ call.status.val = <<>>)
        /\ GuidanceText
             = TEMPLATE \o APPEARANCE_TAG \o call.desc \o NL2 \o SCENE_TAG
                 \o (IF call.status.has /\ call.status.val # <<>>
                     THEN call.status.val ELSE DEFAULT_SCENE)
                 \o NL2

\* a description and the hint "job interview": both are in the text, the
\* default phrase is not
W_C9 ==
    /\ Described
    /\ call.desc = <<"tall", " ", "man">>
    /\ call.status = Some(<<"job", " ", "interview">>)
    /\ Contains(GuidanceText, <<"tall", " ", "man">>)
    /\ Contains(GuidanceText, <<"job", " ", "interview">>)
    /\ ~Contains(GuidanceText, DEFAULT_SCENE)

====
